---- MODULE Spec2Model ----
(***************************************************************************)
(* A model of core/Files.cc (sorbet): the File entity with its lazily      *)
(* built line-break index and once-settable hash, the FileRef accessors,   *)
(* the strictness-sigil scanner and the line-break scan.                   *)
(*                                                                         *)
(* Text is a sequence of one-character strings.  The source uses 0-based   *)
(* offsets; the operators below keep the 0-based offsets of the source and *)
(* add 1 only where a TLA+ sequence is indexed.                            *)
(***************************************************************************)
EXTENDS Integers, Sequences, FiniteSets, TLC

VARIABLES
    files,   \* the File objects of the File state machine (a sequence of records)
    heap,    \* storage objects of line-break vectors: object id -> contents
    thr,     \* per thread: the call it is in, its position and its locals
    gs,      \* the registry GlobalState::files: a sequence of slots
    acc,     \* the outcome of the last accessor call on the registry
    scan,    \* the sigil scanner: its input, loop position and result
    lb,      \* the line-break scan: its input and result
    cen      \* the path censor: its input and result

vars == <<files, heap, thr, gs, acc, scan, lb, cen>>

(***************************************************************************)
(* Bounds of the model.                                                    *)
(***************************************************************************)
MaxTokens == 5      \* sigil inputs are made of at most this many tokens
MaxLen == 5         \* line-break inputs have at most this many characters

(***************************************************************************)
(* Character-level helpers (std::string_view).                             *)
(***************************************************************************)
\* string_view::npos, an offset no text has
npos == -1

\* s[i] for a 0-based offset i
At(s, i) == s[i + 1]

\* string_view::substr(pos, n) for 0 <= pos <= size
Substr(s, pos, n) ==
    LET last == IF pos + n > Len(s) THEN Len(s) ELSE pos + n
    IN  SubSeq(s, pos + 1, last)

\* whether pat occurs in s at 0-based offset p
OccursAt(s, pat, p) ==
    /\ p >= 0
    /\ p + Len(pat) <= Len(s)
    /\ \A k \in 1..Len(pat) : s[p + k] = pat[k]

\* string_view::find(pat, start): the least offset >= start where pat occurs
Find(s, pat, start) ==
    LET hits == {p \in start..(Len(s) - Len(pat)) : OccursAt(s, pat, p)}
    IN  IF hits = {} THEN npos
        ELSE CHOOSE p \in hits : \A q \in hits : p <= q

TYPED == <<"t", "y", "p", "e", "d", ":">>

(***************************************************************************)
(* findLineBreaks                                                          *)
(***************************************************************************)
\* the loop of findLineBreaks: after reading the first k characters, res
\* holds -1 and the offsets of the newlines among them (i = k - 1)
RECURSIVE LineBreakLoop(_, _)
LineBreakLoop(s, k) ==
    IF k = 0 THEN <<-1>>
    ELSE LET res == LineBreakLoop(s, k - 1)
             i == k - 1
         IN  IF At(s, i) = "\n" THEN Append(res, i) ELSE res

\* findLineBreaks with the last entry one short (i instead of i + 1)
findLineBreaksShort(s) ==
    LET i == Len(s) - 1
    IN  Append(LineBreakLoop(s, Len(s)), i)

findLineBreaks(s) ==
    LET i == Len(s) - 1
    IN  Append(LineBreakLoop(s, Len(s)), i + 1)

(***************************************************************************)
(* File::fileSigil                                                         *)
(***************************************************************************)
\* the backward walk, also walking over tabs
RECURSIVE CommentStartTabs(_, _)
CommentStartTabs(source, cs) ==
    IF cs > 0
    THEN IF At(source, cs - 1) = " " \/ At(source, cs - 1) = "\t"
         THEN CommentStartTabs(source, cs - 1)
         ELSE cs - 1
    ELSE cs

\* the backward walk over spaces from an occurrence of "typed:"
RECURSIVE CommentStart(_, _)
CommentStart(source, cs) ==
    IF cs > 0
    THEN IF At(source, cs - 1) = " "
         THEN CommentStart(source, cs - 1)
         ELSE cs - 1
    ELSE cs

\* while (start < source.size() && source[start] == ' ') ++start
RECURSIVE SkipSpaces(_, _)
SkipSpaces(source, start) ==
    IF start < Len(source) /\ At(source, start) = " "
    THEN SkipSpaces(source, start + 1)
    ELSE start

\* while (end < source.size() && source[end] != ' ' && source[end] != '\n') ++end
RECURSIVE ValueEnd(_, _)
ValueEnd(source, end) ==
    IF end < Len(source) /\ At(source, end) # " " /\ At(source, end) # "\n"
    THEN ValueEnd(source, end + 1)
    ELSE end

\* the table of recognised values; "" stands for a value not in the table
SigilLevel(suffix) ==
    IF suffix = <<"i","g","n","o","r","e">> THEN "Ignore"
    ELSE IF suffix = <<"f","a","l","s","e">> THEN "False"
    ELSE IF suffix = <<"t","r","u","e">> THEN "True"
    ELSE IF suffix = <<"s","t","r","i","c","t">> THEN "Strict"
    ELSE IF suffix = <<"s","t","r","o","n","g">> THEN "Strong"
    ELSE IF suffix = <<"a","u","t","o","g","e","n","e","r","a","t","e","d">>
         THEN "Autogenerated"
    ELSE IF suffix = <<"_","_","S","T","D","L","I","B","_","I","N","T","E","R","N","A","L">>
         THEN "Stdlib"
    ELSE ""

\* a pass of the loop that returns None at a value not in the table
SigilIterStop(source, start0) ==
    LET start == Find(source, TYPED, start0)
    IN  IF start = npos
        THEN [ret |-> TRUE, level |-> "None", start |-> npos]
        ELSE IF At(source, CommentStart(source, start)) # "#"
        THEN [ret |-> FALSE, level |-> "None", start |-> start + 1]
        ELSE LET vstart == SkipSpaces(source, start + 6)
             IN  IF vstart >= Len(source)
                 THEN [ret |-> TRUE, level |-> "None", start |-> vstart]
                 ELSE LET end == ValueEnd(source, vstart + 1)
                          suffix == Substr(source, vstart, end - vstart)
                      IN  IF SigilLevel(suffix) # ""
                          THEN [ret |-> TRUE, level |-> SigilLevel(suffix),
                                start |-> vstart]
                          ELSE [ret |-> TRUE, level |-> "None", start |-> end]

\* a pass of the loop without the ++start of line 64
SigilIterNoAdvance(source, start0) ==
    LET start == Find(source, TYPED, start0)
    IN  IF start = npos
        THEN [ret |-> TRUE, level |-> "None", start |-> npos]
        ELSE IF At(source, CommentStart(source, start)) # "#"
        THEN [ret |-> FALSE, level |-> "None", start |-> start]
        ELSE LET vstart == SkipSpaces(source, start + 6)
             IN  IF vstart >= Len(source)
                 THEN [ret |-> TRUE, level |-> "None", start |-> vstart]
                 ELSE LET end == ValueEnd(source, vstart + 1)
                          suffix == Substr(source, vstart, end - vstart)
                      IN  IF SigilLevel(suffix) # ""
                          THEN [ret |-> TRUE, level |-> SigilLevel(suffix),
                                start |-> vstart]
                          ELSE [ret |-> FALSE, level |-> "None", start |-> end]

\* one pass of the body of `while (true)`, entered with the given start:
\* either the function returns (ret) or the loop goes round with a new start
SigilIter(source, start0) ==
    LET start == Find(source, TYPED, start0)
    IN  IF start = npos
        THEN [ret |-> TRUE, level |-> "None", start |-> npos]
        ELSE IF At(source, CommentStart(source, start)) # "#"
        THEN [ret |-> FALSE, level |-> "None", start |-> start + 1]
        ELSE LET vstart == SkipSpaces(source, start + 6)
             IN  IF vstart >= Len(source)
                 THEN [ret |-> TRUE, level |-> "None", start |-> vstart]
                 ELSE LET end == ValueEnd(source, vstart + 1)
                          suffix == Substr(source, vstart, end - vstart)
                      IN  IF SigilLevel(suffix) # ""
                          THEN [ret |-> TRUE, level |-> SigilLevel(suffix),
                                start |-> vstart]
                          ELSE [ret |-> FALSE, level |-> "None", start |-> end]

RECURSIVE SigilLoop(_, _)
SigilLoop(source, start) ==
    LET it == SigilIter(source, start)
    IN  IF it.ret THEN it.level ELSE SigilLoop(source, it.start)

fileSigil(source) == SigilLoop(source, 0)

(***************************************************************************)
(* The sigil scanner as a state machine: one step per pass of the loop of  *)
(* fileSigil (lines 47-104).                                               *)
(***************************************************************************)
\* the pieces the inputs of the scanner are put together from
Tokens ==
    { <<"#">>, <<" ">>, <<"\t">>, <<"\n">>, TYPED, <<"#">> \o TYPED,
      <<"t","r","u","e">>, <<"f","a","l","s","e">> }

RECURSIVE Texts(_)
Texts(n) ==
    IF n = 0 THEN {<<>>}
    ELSE LET prev == Texts(n - 1)
         IN  prev \cup {t \o tok : t \in prev, tok \in Tokens}

SigilSources == Texts(MaxTokens)

ScanIdle == [source |-> <<>>, start |-> 0, pc |-> "idle", level |-> "None"]

\* a call fileSigil(source) has just been entered: size_t start = 0
ScanEnter(source) ==
    [source |-> source, start |-> 0, pc |-> "loop", level |-> "None"]

SigilStep ==
    /\ scan.pc = "loop"
    /\ LET it == SigilIter(scan.source, scan.start)
       IN  scan' = [source |-> scan.source,
                    start |-> it.start,
                    pc |-> IF it.ret THEN "done" ELSE "loop",
                    level |-> it.level]
    /\ UNCHANGED <<files, heap, thr, gs, acc, lb, cen>>

(***************************************************************************)
(* The line-break scan as a state machine: the call of findLineBreaks and  *)
(* of lineCount on a text.                                                 *)
(***************************************************************************)
LineChars == {"a", "\n"}

RECURSIVE LineTexts(_)
LineTexts(n) ==
    IF n = 0 THEN {<<>>}
    ELSE LET prev == LineTexts(n - 1)
         IN  prev \cup {Append(t, c) : t \in prev, c \in LineChars}

LbIdle == [source |-> <<>>, pc |-> "idle", res |-> <<>>, count |-> 0]

\* File::lineCount, given the vector lineBreaks() returns
lineCount(breaks) == Len(breaks) - 1

FindLineBreaksCall ==
    /\ lb.pc = "init"
    /\ lb' = [lb EXCEPT !.pc = "built", !.res = findLineBreaks(lb.source)]
    /\ UNCHANGED <<files, heap, thr, gs, acc, scan, cen>>

LineCountCall ==
    /\ lb.pc = "built"
    /\ lb' = [lb EXCEPT !.pc = "counted", !.count = lineCount(lb.res)]
    /\ UNCHANGED <<files, heap, thr, gs, acc, scan, cen>>

\* File::getLine that keeps the line break which ends the line
getLineKeepBreak(src, breaks, i) ==
    IF ~(i >= 0 /\ i < Len(breaks)) \/ ~(i > 0)
    THEN [failed |-> TRUE, line |-> <<>>]
    ELSE [failed |-> FALSE,
          line |-> Substr(src, breaks[i] + 1, breaks[i + 1] - breaks[i])]

\* File::getLine on the text src whose lineBreaks() is breaks.  The index i
\* is an int and lineBreaks.size() is unsigned, so the first comparison is
\* made on i converted to unsigned: a negative i is larger than any size.
\* lineBreaks[k] of the source is breaks[k + 1] here.
getLine(src, breaks, i) ==
    IF ~(i >= 0 /\ i < Len(breaks)) \/ ~(i > 0)
    THEN [failed |-> TRUE, line |-> <<>>]
    ELSE LET start == breaks[i] + 1
             end   == breaks[i + 1]
         IN  [failed |-> FALSE, line |-> Substr(src, start, end - start)]

\* the line numbers a caller passes: below, inside and beyond the range
LineArgs == -1 .. (MaxLen + 2)

GetLineCall ==
    /\ lb.pc = "counted"
    /\ \E i \in LineArgs :
          LET r == getLine(lb.source, lb.res, i)
          IN  lb' = [source |-> lb.source, pc |-> "line", res |-> lb.res,
                     count |-> lb.count, i |-> i,
                     failed |-> r.failed, line |-> r.line]
    /\ UNCHANGED <<files, heap, thr, gs, acc, scan, cen>>

FileIdle == files = <<>> /\ heap = <<>> /\ thr = <<>>
RefIdle == gs = <<>> /\ acc = [op |-> "none"]

(***************************************************************************)
(* The path censor, File::censorFilePathForSnapshotTests.                  *)
(***************************************************************************)
MaxPieces == 3      \* censored paths are made of at most this many pieces

\* "external/com_stripe_ruby_typer/"
EXTERNAL_PREFIX ==
    <<"e", "x", "t", "e", "r", "n", "a", "l", "/",
      "c", "o", "m", "_", "s", "t", "r", "i", "p",
      "e", "_", "r", "u", "b", "y", "_", "t", "y",
      "p", "e", "r", "/">>

\* "https://github.com/sorbet/sorbet/tree/master/"
URL_PREFIX ==
    <<"h", "t", "t", "p", "s", ":", "/", "/", "g",
      "i", "t", "h", "u", "b", ".", "c", "o", "m",
      "/", "s", "o", "r", "b", "e", "t", "/", "s",
      "o", "r", "b", "e", "t", "/", "t", "r", "e",
      "e", "/", "m", "a", "s", "t", "e", "r", "/">>

\* absl::StartsWith
StartsWith(s, prefix) ==
    /\ Len(s) >= Len(prefix)
    /\ SubSeq(s, 1, Len(prefix)) = prefix

\* string_view::remove_prefix
RemovePrefix(s, n) == SubSeq(s, n + 1, Len(s))

\* the censor that never puts the URL prefix back
censorNoRewrap(orig) ==
    LET r1 == IF StartsWith(orig, EXTERNAL_PREFIX)
              THEN RemovePrefix(orig, Len(EXTERNAL_PREFIX)) ELSE orig
        r2 == IF StartsWith(r1, URL_PREFIX)
              THEN RemovePrefix(r1, Len(URL_PREFIX)) ELSE r1
    IN  IF StartsWith(r1, URL_PREFIX) /\ StartsWith(r2, EXTERNAL_PREFIX)
        THEN RemovePrefix(r2, Len(EXTERNAL_PREFIX)) ELSE r2

\* File::censorFilePathForSnapshotTests: r1 is result after the first if,
\* r3 is result after the second; the second test is made on result, the
\* last on orig
censorFilePathForSnapshotTests(orig) ==
    LET r1 == IF StartsWith(orig, EXTERNAL_PREFIX)
              THEN RemovePrefix(orig, Len(EXTERNAL_PREFIX)) ELSE orig
        r2 == IF StartsWith(r1, URL_PREFIX)
              THEN RemovePrefix(r1, Len(URL_PREFIX)) ELSE r1
        r3 == IF StartsWith(r1, URL_PREFIX) /\ StartsWith(r2, EXTERNAL_PREFIX)
              THEN RemovePrefix(r2, Len(EXTERNAL_PREFIX)) ELSE r2
    IN  IF StartsWith(orig, URL_PREFIX) THEN URL_PREFIX \o r3 ELSE r3

\* what paths are made of: the two prefixes, the start of the sandbox
\* prefix alone, a directory and a file name
PathPieces ==
    {EXTERNAL_PREFIX, URL_PREFIX, SubSeq(EXTERNAL_PREFIX, 1, 9),
     <<"r", "b", "i", "/">>, <<"a", ".", "r", "b">>}

RECURSIVE Paths(_)
Paths(n) ==
    IF n = 0 THEN {<<>>}
    ELSE LET prev == Paths(n - 1)
         IN  prev \cup {t \o piece : t \in prev, piece \in PathPieces}

CenIdle == [pc |-> "idle", orig |-> <<>>, out |-> <<>>]

CensorCall ==
    /\ cen.pc = "call"
    /\ cen' = [cen EXCEPT !.pc = "done",
                          !.out = censorFilePathForSnapshotTests(cen.orig)]
    /\ UNCHANGED <<files, heap, thr, gs, acc, scan, lb>>

InitCensor ==
    /\ FileIdle /\ RefIdle
    /\ scan = ScanIdle /\ lb = LbIdle
    /\ cen \in {[pc |-> "call", orig |-> p, out |-> <<>>] : p \in Paths(MaxPieces)}

NextCensor == CensorCall

SpecCensor == InitCensor /\ [][NextCensor]_vars

InitSigil ==
    /\ FileIdle /\ RefIdle
    /\ lb = LbIdle /\ cen = CenIdle
    /\ scan \in {ScanEnter(s) : s \in SigilSources}

NextSigil == SigilStep

SpecSigil == InitSigil /\ [][NextSigil]_vars

InitLines ==
    /\ FileIdle /\ RefIdle
    /\ scan = ScanIdle /\ cen = CenIdle
    /\ lb \in {[source |-> s, pc |-> "init", res |-> <<>>, count |-> 0] :
                 s \in LineTexts(MaxLen)}

NextLines == FindLineBreaksCall \/ LineCountCall \/ GetLineCall

SpecLines == InitLines /\ [][NextLines]_vars

(***************************************************************************)
(* What the claims about the scanner speak of, stated over the positions   *)
(* of the text and not through the loop.                                   *)
(***************************************************************************)
\* an occurrence of "typed:" at p whose nearest non-space character to the
\* left exists and is '#'
IsDirective(s, p) ==
    /\ OccursAt(s, TYPED, p)
    /\ \E q \in 0..(p - 1) :
          /\ At(s, q) = "#"
          /\ \A k \in (q + 1)..(p - 1) : At(s, k) = " "

Directives(s) == {p \in 0..Len(s) : IsDirective(s, p)}

\* the first offset at or after p + 6 that holds no space (Len(s) if none)
DirValueStart(s, p) ==
    CHOOSE v \in (p + 6)..Len(s) :
        /\ v = Len(s) \/ At(s, v) # " "
        /\ \A k \in (p + 6)..(v - 1) : At(s, k) = " "

IsStop(s, e) == e >= Len(s) \/ At(s, e) = " " \/ At(s, e) = "\n"

\* the value as the text reads: the run from the value start up to (not
\* including) the next space, newline or end of text
RunEnd(s, from) ==
    CHOOSE e \in from..Len(s) :
        IsStop(s, e) /\ \A k \in from..(e - 1) : ~IsStop(s, k)

DirValue(s, p) ==
    LET v == DirValueStart(s, p)
    IN  SubSeq(s, v + 1, RunEnd(s, v))

\* the value as the scanner captures it: the character at the value start,
\* whatever it is, and the run after it
CapturedEnd(s, p) ==
    LET v == DirValueStart(s, p)
    IN  IF v >= Len(s) THEN Len(s) ELSE RunEnd(s, v + 1)

CapturedValue(s, p) ==
    SubSeq(s, DirValueStart(s, p) + 1, CapturedEnd(s, p))

\* a directive the resumed search reaches: it does not start inside the
\* captured value of an earlier reached directive
RECURSIVE Reached(_, _)
Reached(s, p) ==
    /\ IsDirective(s, p)
    /\ \A q \in Directives(s) :
          (q < p /\ Reached(s, q)) => CapturedEnd(s, q) <= p

LeastOf(S) == CHOOSE p \in S : \A q \in S : p <= q

\* C8 as stated: the level of the first directive, in text order, whose
\* value is in the table; None when there is none
FirstValidDirectiveLevel(s) ==
    LET valid == {p \in Directives(s) : SigilLevel(DirValue(s, p)) # ""}
    IN  IF valid = {} THEN "None"
        ELSE SigilLevel(DirValue(s, LeastOf(valid)))

\* C8 as amended: the same among the directives the resumed search reaches,
\* with the value as captured
FirstReachedValidLevel(s) ==
    LET valid == {p \in Directives(s) :
                    Reached(s, p) /\ SigilLevel(CapturedValue(s, p)) # ""}
    IN  IF valid = {} THEN "None"
        ELSE SigilLevel(CapturedValue(s, LeastOf(valid)))

\* C8 (as stated): when fileSigil returns, its result is the level of the
\* first directive in text order whose value is one of the seven table
\* entries, and None if no directive has such a value.
C8_FirstValidDirective ==
    scan.pc = "done" => scan.level = FirstValidDirectiveLevel(scan.source)

\* C8 (amended): when fileSigil returns, its result is the level of the
\* first directive in text order that does not start inside the captured
\* value of an earlier unrecognised directive and whose captured value
\* (the character after the spaces following "typed:", whatever it is, and
\* the run up to the next space, newline or end) is in the table; None if
\* there is none.  An unrecognised value does not stop the scan.
C8_FirstReachedDirective ==
    scan.pc = "done" => scan.level = FirstReachedValidLevel(scan.source)

\* C8 witness: the scan returned a level found after it had passed a
\* directive whose value is not in the table
C8_Witness ==
    /\ scan.pc = "done"
    /\ scan.level = "True"
    /\ \E q \in Directives(scan.source) :
          /\ Reached(scan.source, q)
          /\ CapturedEnd(scan.source, q) <= scan.start
          /\ SigilLevel(CapturedValue(scan.source, q)) = ""

\* C9: in every pass of the loop, an occurrence of "typed:" that is not
\* '#'-introduced (start of text, only spaces before it, or another
\* character, a tab included, before the spaces) makes the search go on
\* one character further without returning; a pass returns a level other
\* than None only from a '#'-introduced occurrence; and a '#'-introduced
\* occurrence followed only by spaces up to the end of text returns None.
C9_OnlyHashIntroduced ==
    [][ scan.pc = "loop" =>
          LET p == Find(scan.source, TYPED, scan.start)
          IN  /\ (p # npos /\ ~IsDirective(scan.source, p))
                    => (scan'.pc = "loop" /\ scan'.start = p + 1)
              /\ (scan'.pc = "done" /\ scan'.level # "None")
                    => (p # npos /\ IsDirective(scan.source, p)
                        /\ scan'.level = SigilLevel(CapturedValue(scan.source, p)))
              /\ (p # npos /\ IsDirective(scan.source, p)
                  /\ DirValueStart(scan.source, p) = Len(scan.source))
                    => (scan'.pc = "done" /\ scan'.level = "None")
      ]_vars

\* C9 witness: the scan returned a level after it had skipped an occurrence
\* of "typed:" that a tab separates from a '#'
C9_Witness ==
    /\ scan.pc = "done"
    /\ scan.level # "None"
    /\ \E p \in 1..Len(scan.source) :
          /\ OccursAt(scan.source, TYPED, p)
          /\ At(scan.source, p - 1) = "\t"
          /\ p < scan.start

\* C10: for every text the line index starts with -1, ends with the length
\* of the text, its interior entries are exactly the offsets of the
\* newlines in strictly increasing order, and lineCount is the length of
\* the index minus 1, the number of newlines plus 1.
C10_LineIndexShape ==
    LET s == lb.source
        r == lb.res
        nl == {k \in 0..(Len(s) - 1) : At(s, k) = "\n"}
    IN  /\ lb.pc \in {"built", "counted"} =>
              /\ Len(r) >= 2
              /\ r[1] = -1
              /\ r[Len(r)] = Len(s)
              /\ {r[j] : j \in 2..(Len(r) - 1)} = nl
              /\ Len(r) - 2 = Cardinality(nl)
              /\ \A j \in 1..(Len(r) - 2) : r[j] < r[j + 1]
        /\ lb.pc = "counted" =>
              /\ lb.count = Len(r) - 1
              /\ lb.count = Cardinality(nl) + 1

\* C10 witness: the index of a text that ends in a newline and has another
\* newline before it has been built and counted
C10_Witness ==
    /\ lb.pc = "counted"
    /\ Len(lb.source) >= 3
    /\ lb.source[Len(lb.source)] = "\n"
    /\ Len(lb.res) >= 4

\* the bytes of s at the 0-based offsets from .. (to - 1)
Bytes(s, from, to) == [k \in 1 .. (to - from) |-> s[from + k]]

\* getLine(1), "\n", getLine(2), ..., getLine(n)
RECURSIVE JoinLines(_, _, _)
JoinLines(src, breaks, n) ==
    IF n = 0 THEN <<>>
    ELSE IF n = 1 THEN getLine(src, breaks, 1).line
    ELSE JoinLines(src, breaks, n - 1) \o <<"\n">> \o getLine(src, breaks, n).line

\* C11: getLine(i) returns, for every i with 1 <= i < len(lineIndex), the
\* bytes of the source from offset lineIndex[i-1]+1 up to but excluding
\* lineIndex[i], so that the lines 1..lineCount joined with "\n" give the
\* source back; for every other i the call fails.
C11_GetLine ==
    /\ lb.pc = "line" =>
          IF 1 <= lb.i /\ lb.i < Len(lb.res)
          THEN /\ ~lb.failed
               /\ lb.line = Bytes(lb.source, lb.res[lb.i] + 1, lb.res[lb.i + 1])
          ELSE lb.failed
    /\ lb.pc \in {"counted", "line"} =>
          JoinLines(lb.source, lb.res, lb.count) = lb.source

\* the second line of a text of three lines was read, and it is not empty
C11_Witness ==
    /\ lb.pc = "line"
    /\ lb.i = 2
    /\ lb.count = 3
    /\ ~lb.failed
    /\ Len(lb.line) >= 1

\* path with one leading sandbox prefix removed, if it has one
StripSandbox(path) ==
    IF StartsWith(path, EXTERNAL_PREFIX)
    THEN RemovePrefix(path, Len(EXTERNAL_PREFIX)) ELSE path

\* C12: for every path that does not begin with the URL prefix, the censor
\* returns the path with one leading sandbox prefix removed if it had one
\* and unchanged otherwise; a URL prefix that follows the sandbox prefix is
\* neither stripped nor re-added.
C12_NoUrlOnlySandboxStripped ==
    (cen.pc = "done" /\ ~StartsWith(cen.orig, URL_PREFIX)) =>
        cen.out = StripSandbox(cen.orig)

\* C13: for every path that begins with the URL prefix, the censored path
\* begins with the URL prefix, followed by the rest of the input with one
\* leading sandbox prefix removed from it if it had one.
C13_UrlKeptSandboxStripped ==
    (cen.pc = "done" /\ StartsWith(cen.orig, URL_PREFIX)) =>
        cen.out = URL_PREFIX \o StripSandbox(RemovePrefix(cen.orig, Len(URL_PREFIX)))

\* a path of the URL prefix, the sandbox prefix and a file name was censored
C13_Witness ==
    /\ cen.pc = "done"
    /\ cen.orig = URL_PREFIX \o EXTERNAL_PREFIX \o <<"a", ".", "r", "b">>
    /\ cen.out = URL_PREFIX \o <<"a", ".", "r", "b">>

(***************************************************************************)
(* The File object.                                                        *)
(***************************************************************************)
\* an empty shared_ptr
NULL == 0

\* a shared_ptr left referring to an object that has been destroyed
Destroyed == -2

Types == {"Normal", "Payload", "PayloadGeneration", "Package",
          "TombStone", "NotYetRead"}

\* File::File: the sigil is scanned once and stored as originalSigil and as
\* the initial strictLevel; the other members keep their default values.
\* The shared_ptr lineBreaks_ is two words: lineBreaks is the object it
\* points to, owns the object whose reference count it holds.
FileNew(path_, source_, sourceType, epoch) ==
    [path |-> path_, source |-> source_, sourceType |-> sourceType,
     epoch |-> epoch,
     originalSigil |-> fileSigil(source_),
     strictLevel |-> fileSigil(source_),
     minErrorLevel |-> "Max",
     lineBreaks |-> NULL,
     owns |-> NULL,
     hash |-> NULL,
     cached |-> FALSE]

\* File::path: no check of sourceType
path(f) == [result |-> "value", value |-> f.path]

\* source() without its ENFORCEs
sourceUnchecked(f) == [result |-> "value", value |-> f.source]

\* File::source: the two ENFORCEs, then the stored text
source(f) ==
    IF f.sourceType = "TombStone" THEN [result |-> "fail", value |-> <<>>]
    ELSE IF f.sourceType = "NotYetRead" THEN [result |-> "fail", value |-> <<>>]
    ELSE [result |-> "value", value |-> f.source]

(***************************************************************************)
(* The registry and FileRef.  A slot of gs is NoFile (an empty shared_ptr) *)
(* or a File; FileRef ids are 0-based.                                     *)
(***************************************************************************)
MaxSlots == 2       \* the registry holds at most this many slots

NoFile == [sourceType |-> "null"]

\* the read of gs.files[_id] itself ends the program (a segmentation fault)
SegFault == [sourceType |-> "crash"]

RefPaths == { <<"a", ".", "r", "b">>, <<"b", ".", "r", "b", "i">> }
RefSource == <<"x", "\n">>

SlotValues ==
    {NoFile} \cup {FileNew(p, RefSource, ty, 1) : p \in RefPaths, ty \in Types}

\* GlobalState::filesUsed: the number of allocated slots
filesUsed(g) == Len(g)

\* the registry grows by one slot, empty or holding a File
EnterSlot ==
    /\ Len(gs) < MaxSlots
    /\ \E v \in SlotValues : gs' = Append(gs, v)
    /\ acc' = [op |-> "none"]
    /\ UNCHANGED <<files, heap, thr, scan, lb, cen>>

\* FileRef::dataAllowingUnsafe: the bounds check, then the slot is
\* dereferenced (an empty slot in bounds is dereferenced all the same)
dataAllowingUnsafe(g, id) ==
    IF ~(id < filesUsed(g)) THEN [result |-> "fail", file |-> NoFile]
    ELSE IF g[id + 1] = NoFile THEN [result |-> "nullderef", file |-> NoFile]
    ELSE [result |-> "file", file |-> g[id + 1]]

\* FileRef::data, where read is what the expression gs.files[_id] yields:
\* the three ENFORCEs on it, then dataAllowingUnsafe
data(g, id, read) ==
    IF read = SegFault THEN [result |-> "crash", file |-> NoFile]
    ELSE IF read = NoFile THEN [result |-> "fail", file |-> NoFile]
    ELSE IF read.sourceType = "TombStone" THEN [result |-> "fail", file |-> NoFile]
    ELSE IF read.sourceType = "NotYetRead" THEN [result |-> "fail", file |-> NoFile]
    ELSE dataAllowingUnsafe(g, id)

\* what gs.files[_id] can yield: the slot when id is in bounds; past the
\* end of the vector the read is undefined: it can yield anything, or end
\* the program
ReadSlot(g, id) ==
    IF id < Len(g) THEN {g[id + 1]} ELSE SlotValues \cup {SegFault}

RefIds == 0..MaxSlots

DataCall ==
    \E id \in RefIds : \E read \in ReadSlot(gs, id) :
        /\ acc' = [op |-> "data", id |-> id,
                   oob |-> ~(id < Len(gs)),
                   out |-> data(gs, id, read)]
        /\ UNCHANGED <<gs, files, heap, thr, scan, lb, cen>>

DataAllowingUnsafeCall ==
    \E id \in RefIds :
        /\ acc' = [op |-> "dataAllowingUnsafe", id |-> id,
                   oob |-> FALSE,
                   out |-> dataAllowingUnsafe(gs, id)]
        /\ UNCHANGED <<gs, files, heap, thr, scan, lb, cen>>

\* path() and source() called on the File of a populated slot
PathCall ==
    \E id \in 0..(Len(gs) - 1) :
        /\ gs[id + 1] # NoFile
        /\ acc' = [op |-> "path", id |-> id, out |-> path(gs[id + 1])]
        /\ UNCHANGED <<gs, files, heap, thr, scan, lb, cen>>

SourceCall ==
    \E id \in 0..(Len(gs) - 1) :
        /\ gs[id + 1] # NoFile
        /\ acc' = [op |-> "source", id |-> id, out |-> source(gs[id + 1])]
        /\ UNCHANGED <<gs, files, heap, thr, scan, lb, cen>>

InitRef ==
    /\ FileIdle
    /\ scan = ScanIdle /\ lb = LbIdle /\ cen = CenIdle
    /\ gs = <<>>
    /\ acc = [op |-> "none"]

NextRef ==
    \/ EnterSlot
    \/ DataCall
    \/ DataAllowingUnsafeCall
    \/ PathCall
    \/ SourceCall

SpecRef == InitRef /\ [][NextRef]_vars

Unreadable(f) == f.sourceType \in {"TombStone", "NotYetRead"}

\* C6 (as stated): path() and source() both fail when the File's sourceType
\* is TombStone or NotYetRead and return the stored value otherwise.
C6_BothAccessorsFail ==
    acc.op \in {"path", "source"} =>
        LET f == gs[acc.id + 1]
        IN  IF Unreadable(f) THEN acc.out.result = "fail"
            ELSE acc.out = [result |-> "value",
                            value |-> IF acc.op = "path" THEN f.path ELSE f.source]

\* C6 (amended): source() fails when the File's sourceType is TombStone or
\* NotYetRead and returns the stored text otherwise; path() returns the
\* stored path for every sourceType, TombStone and NotYetRead included.
C6_SourceFailsPathReturns ==
    /\ acc.op = "source" =>
          LET f == gs[acc.id + 1]
          IN  IF Unreadable(f) THEN acc.out.result = "fail"
              ELSE acc.out = [result |-> "value", value |-> f.source]
    /\ acc.op = "path" =>
          acc.out = [result |-> "value", value |-> gs[acc.id + 1].path]

\* C6 witness: path() has returned the path of a TombStone File
C6_Witness ==
    /\ acc.op = "path"
    /\ gs[acc.id + 1].sourceType = "TombStone"
    /\ acc.out.result = "value"

\* C7: data() fails without reading outside the registry when the id is
\* not below the count of allocated slots, when the slot is empty, or when
\* the slot's sourceType is TombStone or NotYetRead, and returns the File of
\* the slot otherwise; dataAllowingUnsafe fails exactly when the id is not
\* below the count of allocated slots.
C7_SafeAccessor ==
    /\ acc.op = "data" =>
          /\ ~acc.oob
          /\ IF ~(acc.id < Len(gs)) THEN acc.out.result = "fail"
             ELSE IF gs[acc.id + 1] = NoFile THEN acc.out.result = "fail"
             ELSE IF Unreadable(gs[acc.id + 1]) THEN acc.out.result = "fail"
             ELSE acc.out = [result |-> "file", file |-> gs[acc.id + 1]]
    /\ acc.op = "dataAllowingUnsafe" =>
          (acc.out.result = "fail" <=> ~(acc.id < Len(gs)))

(***************************************************************************)
(* The File state machine: threads calling lineBreaks, setFileHash,        *)
(* getFileHash and deepCopy on shared Files, and the coordinator's writes  *)
(* of the plain mutable fields.                                            *)
(*                                                                         *)
(* heap[o] is the vector that storage object o holds, Free when no         *)
(* shared_ptr owns o any more.  A File's lineBreaks field and a thread's   *)
(* ptr / my / outer hold shared_ptrs; what lineBreaks() returns is a plain *)
(* reference, which owns nothing.  builds counts the candidates a call of  *)
(* lineBreaks has built, fails the compare-and-swaps of the call that      *)
(* failed although the slot held the expected value.  op is the call the   *)
(* caller made: lineCount and getLine run lineBreaks() and go on with what *)
(* it returns.                                                             *)
(***************************************************************************)
NumThreads == 2     \* threads calling into the Files
MaxFiles == 2       \* the original File and the copies made of it
MaxRetry == 1       \* spurious failures of the weak CAS within one call

Threads == 1..NumThreads
Hashes == {1, 2}    \* the FileHash objects handed to setFileHash
OverrideLevels == {"Strict"}
FileTypes == {"Normal", "NotYetRead"}
FilePath == <<"f", ".", "r", "b">>
FileSource == <<"#", "t", "y", "p", "e", "d", ":", "t", "r", "u", "e", "\n", "a">>
FileLineArgs == {0, 2, 3}   \* the line numbers handed to getLine

Free == <<>>

\* the local ret of deepCopy while no copy is being made
NoCopy == [lineBreaks |-> NULL, owns |-> NULL]

ThreadIdle ==
    [pc |-> "idle", op |-> "none", file |-> 0, ptr |-> NULL, my |-> NULL,
     outer |-> {}, builds |-> 0, fails |-> 0, arg |-> NULL, failed |-> FALSE,
     ret |-> NULL, copy |-> NoCopy]

\* the storage objects some shared_ptr owns
Owned(fs, th) ==
    ({fs[i].owns : i \in DOMAIN fs}
        \cup {th[t].copy.owns : t \in DOMAIN th}
        \cup {th[t].ptr : t \in DOMAIN th}
        \cup {th[t].my : t \in DOMAIN th}
        \cup UNION {th[t].outer : t \in DOMAIN th}) \ {NULL}

\* shared_ptr reference counting: an object no shared_ptr owns is destroyed
Release(h, fs, th) ==
    [o \in DOMAIN h |-> IF o \in Owned(fs, th) THEN h[o] ELSE Free]

\* Storage objects are named after the thread that creates them: thread t
\* creates the objects t, t + NumThreads, t + 2 * NumThreads, ...  A thread
\* owns at most MaxRetry + 1 candidates of a call in flight, and at most
\* MaxFiles objects it installed are alive in Files.
ObjectsPerThread == MaxRetry + 1 + MaxFiles
Objects == 1..(NumThreads * ObjectsPerThread)
ObjectsOf(t) == {o \in Objects : (o - t) % NumThreads = 0}

\* make_shared by thread t: a storage object that is not alive
NewObject(h, t) ==
    CHOOSE o \in ObjectsOf(t) :
        /\ h[o] = Free
        /\ \A q \in ObjectsOf(t) : h[q] = Free => o <= q

Store(h, o, v) == [h EXCEPT ![o] = v]

\* a call returns: the frame's locals are destroyed
Returned(op, f, arg, r) ==
    [ThreadIdle EXCEPT !.pc = "ret", !.op = op, !.file = f, !.arg = arg, !.ret = r]

\* an ENFORCE of the call does not hold
Failed(op, f) ==
    [ThreadIdle EXCEPT !.pc = "ret", !.op = op, !.file = f, !.failed = TRUE]

Step(fs, th, h) ==
    /\ files' = fs
    /\ thr' = th
    /\ heap' = Release(h, fs, th)
    /\ UNCHANGED <<gs, acc, scan, lb, cen>>

\* what the caller's call op returns once lineBreaks() has returned the
\* vector of storage object ptr: lineBreaks the vector itself, lineCount
\* (line 204) its size less one, getLine (lines 209-213) the line i
Finish(op, f, i, ptr) ==
    IF op = "lineCount"
    THEN Returned(op, f, NULL, lineCount(heap[ptr]))
    ELSE IF op = "getLine"
    THEN LET line == getLine(source(files[f]).value, heap[ptr], i)
         IN  IF line.failed
             THEN [Failed(op, f) EXCEPT !.arg = i]
             ELSE Returned(op, f, i, line.line)
    ELSE Returned(op, f, NULL, ptr)

\* File::lineBreaks, lines 191-195, run for the caller's call op: the
\* ENFORCEs, the atomic load, and the return when the slot is set
LoadStep(t, f, op, i) ==
    LET file == files[f]
        ptr == file.lineBreaks
    IN  IF file.sourceType \in {"TombStone", "NotYetRead"}
        THEN Step(files, [thr EXCEPT ![t] = Failed(op, f)], heap)
        ELSE IF ptr # NULL
        THEN Step(files,
                  [thr EXCEPT ![t] = [Finish(op, f, i, ptr)
                                         EXCEPT !.builds = thr[t].builds,
                                                !.fails = thr[t].fails]],
                  heap)
        ELSE Step(files,
                  [thr EXCEPT ![t] = [@ EXCEPT !.pc = "lb_loaded", !.op = op,
                                               !.file = f, !.arg = i,
                                               !.ptr = NULL, !.my = NULL]],
                  heap)

\* File::lineBreaks, entered by a caller or by the tail call of line 199
LineBreaksLoad(t, f) ==
    \/ thr[t].pc = "idle" /\ LoadStep(t, f, "lineBreaks", NULL)
    \/ /\ thr[t].pc = "lb_again" /\ thr[t].file = f
       /\ LoadStep(t, f, thr[t].op, thr[t].arg)

\* File::lineCount, line 204: lineBreaks().size() - 1
LineCount(t, f) ==
    thr[t].pc = "idle" /\ LoadStep(t, f, "lineCount", NULL)

\* File::getLine, lines 207-214
GetLine(t, f, i) ==
    thr[t].pc = "idle" /\ LoadStep(t, f, "getLine", i)

\* line 197: auto my = make_shared<vector<int>>(findLineBreaks(this->source_))
LineBreaksBuild(t) ==
    /\ thr[t].pc = "lb_loaded"
    /\ LET o == NewObject(heap, t)
       IN  Step(files,
                [thr EXCEPT ![t] = [@ EXCEPT !.pc = "lb_built", !.my = o, !.builds = @ + 1]],
                Store(heap, o, findLineBreaks(files[thr[t].file].source)))

\* a store in place of the compare-and-swap: the slot is overwritten
\* whatever it holds
ExchangeAlways(t, spurious) ==
    LET f == thr[t].file
        outer == thr[t].outer \cup {thr[t].my, thr[t].ptr}
    IN  Step([files EXCEPT ![f].lineBreaks = thr[t].my, ![f].owns = thr[t].my],
             [thr EXCEPT ![t] = [@ EXCEPT !.pc = "lb_again", !.outer = outer \ {NULL},
                                          !.my = NULL, !.ptr = NULL]],
             heap)

\* a compare-and-swap that never stores: the slot keeps its value and the
\* call goes on as if the exchange had been made
ExchangeDropped(t, spurious) ==
    LET outer == thr[t].outer \cup {thr[t].my, thr[t].ptr}
    IN  Step(files,
             [thr EXCEPT ![t] = [@ EXCEPT !.pc = "lb_again", !.outer = outer \ {NULL},
                                          !.my = NULL, !.ptr = NULL,
                                          !.fails = IF spurious THEN @ + 1 ELSE @]],
             heap)

\* line 198: atomic_compare_exchange_weak(&lineBreaks_, &ptr, my), then the
\* tail call of line 199 is entered.  The weak form may fail although the
\* slot equals ptr; on failure ptr receives the slot's value.
CompareExchangeWeak(t, spurious) ==
    LET f == thr[t].file
        slot == files[f].lineBreaks
        outer == thr[t].outer \cup {thr[t].my, thr[t].ptr}
    IN  IF slot = thr[t].ptr /\ ~spurious
        THEN Step([files EXCEPT ![f].lineBreaks = thr[t].my, ![f].owns = thr[t].my],
                  [thr EXCEPT ![t] = [@ EXCEPT !.pc = "lb_again", !.outer = outer \ {NULL},
                                               !.my = NULL, !.ptr = NULL]],
                  heap)
        ELSE Step(files,
                  [thr EXCEPT ![t] = [@ EXCEPT !.pc = "lb_again", !.outer = (outer \cup {slot}) \ {NULL},
                                               !.my = NULL, !.ptr = NULL,
                                               !.fails = IF slot = thr[t].ptr THEN @ + 1 ELSE @]],
                  heap)

LineBreaksCAS(t) ==
    /\ thr[t].pc = "lb_built"
    /\ \E spurious \in BOOLEAN :
          /\ spurious => Cardinality(thr[t].outer) < MaxRetry
          /\ CompareExchangeWeak(t, spurious)

\* setFileHash without the test of hash_: every call goes on to store
SetFileHashUntested(t, f, h) ==
    /\ thr[t].pc = "idle"
    /\ Step(files,
            [thr EXCEPT ![t] = [@ EXCEPT !.pc = "sfh_clear", !.op = "setFileHash",
                                         !.file = f, !.arg = h]],
            heap)

\* File::setFileHash, line 124: the test of hash_; a populated hash makes
\* the call return at once
SetFileHashTest(t, f, h) ==
    /\ thr[t].pc = "idle"
    /\ IF files[f].hash = NULL
       THEN Step(files,
                 [thr EXCEPT ![t] = [@ EXCEPT !.pc = "sfh_clear", !.op = "setFileHash",
                                              !.file = f, !.arg = h]],
                 heap)
       ELSE Step(files, [thr EXCEPT ![t] = Returned("setFileHash", f, h, "noop")], heap)

\* line 125: cached = false
SetFileHashClear(t) ==
    /\ thr[t].pc = "sfh_clear"
    /\ Step([files EXCEPT ![thr[t].file].cached = FALSE],
            [thr EXCEPT ![t] = [@ EXCEPT !.pc = "sfh_store"]],
            heap)

\* the store of line 126 races with the store of another call when that
\* call is past the test of line 124 too, or has already stored
StoreRaces(t) ==
    \/ files[thr[t].file].hash # NULL
    \/ \E u \in Threads :
          /\ u # t
          /\ thr[u].pc \in {"sfh_clear", "sfh_store"}
          /\ thr[u].file = thr[t].file

\* line 126: hash_ = move(hash), a plain assignment of a shared_ptr.  Two
\* racing stores are a data race: hash_ ends as the one hash, as the other,
\* or referring to a FileHash that has been destroyed.
SetFileHashStore(t) ==
    /\ thr[t].pc = "sfh_store"
    /\ LET f == thr[t].file
       IN  \E v \in {thr[t].arg} \cup (IF StoreRaces(t) THEN {Destroyed} ELSE {}) :
              Step([files EXCEPT ![f].hash = v],
                   [thr EXCEPT ![t] = Returned("setFileHash", f, thr[t].arg, "stored")],
                   heap)

\* File::getFileHash
GetFileHash(t, f) ==
    /\ thr[t].pc = "idle"
    /\ Step(files, [thr EXCEPT ![t] = Returned("getFileHash", f, NULL, files[f].hash)], heap)

\* the File of line 114 made with the hash of this
MakeCopyKeepHash(file) ==
    [FileNew(file.path, file.source, file.sourceType, file.epoch)
        EXCEPT !.hash = file.hash]

\* the File of line 114 made of a source that has been moved from
MakeCopyMovedSource(file) ==
    FileNew(file.path, <<>>, file.sourceType, file.epoch)

\* lines 112-114: copies of source_ and path_, and a new File made of them
MakeCopy(file) ==
    FileNew(file.path, file.source, file.sourceType, file.epoch)

\* line 115 left out
CopyIndexSkipped(copy, slot) == copy

\* line 115: ret->lineBreaks_ = lineBreaks_, where slot is what the read of
\* lineBreaks_ yields
CopyIndex(copy, slot) ==
    [copy EXCEPT !.lineBreaks = slot.lineBreaks, !.owns = slot.owns]

\* line 117 assigning originalSigil as well
CopyStrictLevelAndSigil(copy, file) ==
    [copy EXCEPT !.strictLevel = file.strictLevel,
                 !.originalSigil = file.strictLevel]

\* line 117: ret->strictLevel = strictLevel
CopyStrictLevel(copy, file) == [copy EXCEPT !.strictLevel = file.strictLevel]

\* the positions inside deepCopy
CopyPcs == {"dc_new", "dc_index", "dc_min"}

\* File::deepCopy is entered: lines 112-114.  The copy is the caller's
\* until the call returns it.
DeepCopy(t, f) ==
    /\ thr[t].pc = "idle"
    /\ Len(files) + Cardinality({u \in Threads : thr[u].pc \in CopyPcs}) < MaxFiles
    /\ Step(files,
            [thr EXCEPT ![t] = [@ EXCEPT !.pc = "dc_new", !.op = "deepCopy",
                                         !.file = f, !.copy = MakeCopy(files[f])]],
            heap)

\* line 115, the read of lineBreaks_ not overlapping a store into it
DeepCopyIndex(t) ==
    /\ thr[t].pc = "dc_new"
    /\ Step(files,
            [thr EXCEPT ![t] = [@ EXCEPT !.pc = "dc_index",
                                         !.copy = CopyIndex(@, files[thr[t].file])]],
            heap)

\* line 115 overlapping the compare-and-swap of line 198 by thread u, which
\* stores: the plain read of the two words of lineBreaks_ is a data race,
\* and yields the new pointer with the old reference count, or the old
\* pointer with the new reference count
DeepCopyIndexTorn(t, u) ==
    /\ thr[t].pc = "dc_new"
    /\ u # t
    /\ thr[u].pc = "lb_built" /\ thr[u].file = thr[t].file
    /\ files[thr[t].file].lineBreaks = thr[u].ptr
    /\ LET f == thr[t].file
           my == thr[u].my
       IN  \E torn \in {[lineBreaks |-> my, owns |-> NULL],
                        [lineBreaks |-> NULL, owns |-> my]} :
              Step([files EXCEPT ![f].lineBreaks = my, ![f].owns = my],
                   [thr EXCEPT ![u] = [@ EXCEPT !.pc = "lb_again",
                                                !.outer = (@ \cup {my}) \ {NULL},
                                                !.my = NULL, !.ptr = NULL],
                               ![t] = [@ EXCEPT !.pc = "dc_index",
                                                !.copy = CopyIndex(@, torn)]],
                   heap)

\* line 116: ret->minErrorLevel_ = minErrorLevel_
DeepCopyMin(t) ==
    /\ thr[t].pc = "dc_index"
    /\ Step(files,
            [thr EXCEPT ![t] = [@ EXCEPT !.pc = "dc_min",
                                         !.copy.minErrorLevel =
                                             files[thr[t].file].minErrorLevel]],
            heap)

\* lines 117-118: ret->strictLevel = strictLevel; return ret.  The copy
\* joins the Files; what the call returns is its index among them.
DeepCopyReturn(t) ==
    /\ thr[t].pc = "dc_min"
    /\ LET f == thr[t].file
       IN  Step(Append(files, CopyStrictLevel(thr[t].copy, files[f])),
                [thr EXCEPT ![t] = Returned("deepCopy", f, NULL, Len(files) + 1)],
                heap)

\* the caller is done with what the call returned
Return(t) ==
    /\ thr[t].pc = "ret"
    /\ Step(files, [thr EXCEPT ![t] = ThreadIdle], heap)

\* the coordinator's writes of the plain fields
SetStrictLevel(f, lvl) ==
    /\ files[f].strictLevel # lvl
    /\ Step([files EXCEPT ![f].strictLevel = lvl], thr, heap)

SetMinErrorLevel(f, lvl) ==
    /\ files[f].minErrorLevel # lvl
    /\ Step([files EXCEPT ![f].minErrorLevel = lvl], thr, heap)

MarkCached(f) ==
    /\ ~files[f].cached
    /\ Step([files EXCEPT ![f].cached = TRUE], thr, heap)

Init ==
    /\ RefIdle
    /\ scan = ScanIdle /\ lb = LbIdle /\ cen = CenIdle
    /\ \E ty \in FileTypes : files = <<FileNew(FilePath, FileSource, ty, 1)>>
    /\ heap = [o \in Objects |-> Free]
    /\ thr = [t \in Threads |-> ThreadIdle]

\* concurrent first-time readers of the line index, and copies
NextLB ==
    \/ \E t \in Threads : \E f \in DOMAIN files : LineBreaksLoad(t, f)
    \/ \E t \in Threads : \E f \in DOMAIN files : LineCount(t, f)
    \/ \E t \in Threads : \E f \in DOMAIN files : \E i \in FileLineArgs : GetLine(t, f, i)
    \/ \E t \in Threads : LineBreaksBuild(t)
    \/ \E t \in Threads : LineBreaksCAS(t)
    \/ \E t \in Threads : \E f \in DOMAIN files : DeepCopy(t, f)
    \/ \E t \in Threads : DeepCopyIndex(t)
    \/ \E t, u \in Threads : DeepCopyIndexTorn(t, u)
    \/ \E t \in Threads : DeepCopyMin(t)
    \/ \E t \in Threads : DeepCopyReturn(t)
    \/ \E t \in Threads : Return(t)

SpecLB == Init /\ [][NextLB]_vars

\* concurrent callers of setFileHash, getFileHash and deepCopy, and the
\* coordinator writing the plain fields while they run
NextHash ==
    \/ \E t \in Threads : \E f \in DOMAIN files : \E h \in Hashes : SetFileHashTest(t, f, h)
    \/ \E t \in Threads : SetFileHashClear(t)
    \/ \E t \in Threads : SetFileHashStore(t)
    \/ \E t \in Threads : \E f \in DOMAIN files : GetFileHash(t, f)
    \/ \E t \in Threads : \E f \in DOMAIN files : DeepCopy(t, f)
    \/ \E t \in Threads : DeepCopyIndex(t)
    \/ \E t \in Threads : DeepCopyMin(t)
    \/ \E t \in Threads : DeepCopyReturn(t)
    \/ \E t \in Threads : Return(t)
    \/ \E f \in DOMAIN files : \E lvl \in OverrideLevels : SetStrictLevel(f, lvl)
    \/ \E f \in DOMAIN files : \E lvl \in OverrideLevels : SetMinErrorLevel(f, lvl)
    \/ \E f \in DOMAIN files : MarkCached(f)

SpecHash == Init /\ [][NextHash]_vars

\* sequential histories: every call is made by one thread, one at a time,
\* and the coordinator writes the plain fields between the calls
Main == CHOOSE t \in Threads : \A u \in Threads : t <= u

Quiet == thr[Main].pc \in {"idle", "ret"}

Next ==
    \/ \E f \in DOMAIN files : LineBreaksLoad(Main, f)
    \/ \E f \in DOMAIN files : LineCount(Main, f)
    \/ \E f \in DOMAIN files : \E i \in FileLineArgs : GetLine(Main, f, i)
    \/ LineBreaksBuild(Main)
    \/ LineBreaksCAS(Main)
    \/ \E f \in DOMAIN files : \E h \in Hashes : SetFileHashTest(Main, f, h)
    \/ SetFileHashClear(Main)
    \/ SetFileHashStore(Main)
    \/ \E f \in DOMAIN files : GetFileHash(Main, f)
    \/ \E f \in DOMAIN files : DeepCopy(Main, f)
    \/ DeepCopyIndex(Main)
    \/ DeepCopyMin(Main)
    \/ DeepCopyReturn(Main)
    \/ Return(Main)
    \/ Quiet /\ \E f \in DOMAIN files : \E lvl \in OverrideLevels : SetStrictLevel(f, lvl)
    \/ Quiet /\ \E f \in DOMAIN files : \E lvl \in OverrideLevels : SetMinErrorLevel(f, lvl)
    \/ Quiet /\ \E f \in DOMAIN files : MarkCached(f)

Spec == Init /\ [][Next]_vars

(***************************************************************************)
(* Claims about the File state machine.                                    *)
(***************************************************************************)
\* thread t is back from a call of op that did not fail
Back(t, op) == thr[t].pc = "ret" /\ thr[t].op = op /\ ~thr[t].failed

\* the step taken is the return of thread t's call of deepCopy
DeepCopyStep(t) ==
    thr[t].pc = "dc_min" /\ thr'[t].pc = "ret" /\ thr'[t].op = "deepCopy"

\* the step taken is line 115 of thread t's call of deepCopy
CopyIndexStep(t) ==
    thr[t].pc = "dc_new" /\ thr'[t].pc = "dc_index"

\* C1: every call of lineBreaks() that returns, under every interleaving of
\* the loads, builds and compare-and-swaps of the threads, returns a live
\* vector equal to findLineBreaks(source), and all calls on one File return
\* the same vector: the one the File's slot holds.
C1_SameSequence ==
    \A t \in Threads :
        Back(t, "lineBreaks") =>
            LET f == thr[t].file
            IN  /\ thr[t].ret \in DOMAIN heap
                /\ heap[thr[t].ret] = findLineBreaks(files[f].source)
                /\ thr[t].ret = files[f].lineBreaks
                /\ \A u \in Threads :
                      (Back(u, "lineBreaks") /\ thr[u].file = f)
                          => heap[thr[u].ret] = heap[thr[t].ret]

\* C1 witness: two threads that both found the slot empty and both built a
\* candidate are back from lineBreaks() on the same File
C1_Witness ==
    \E t, u \in Threads :
        /\ t # u
        /\ Back(t, "lineBreaks") /\ Back(u, "lineBreaks")
        /\ thr[t].file = thr[u].file
        /\ thr[t].builds >= 1 /\ thr[u].builds >= 1

\* C2: once the hash of a File is populated no later store changes it, also
\* when several callers run setFileHash at the same time.
C2_HashSetOnce ==
    [][ \A f \in DOMAIN files :
            files[f].hash # NULL => files'[f].hash = files[f].hash ]_vars

\* C3: in a sequential history, once the hash of a File is populated, a
\* call of setFileHash on it returns without failing and leaves the hash,
\* the cached flag and every other field as they were, and no step changes
\* the hash.
C3_LaterSetIsNoOp ==
    [][ \A f \in DOMAIN files :
            files[f].hash # NULL =>
                /\ files'[f].hash = files[f].hash
                /\ \A t \in Threads :
                      ( /\ thr[t].pc = "idle"
                        /\ thr'[t].op = "setFileHash"
                        /\ thr'[t].file = f )
                      => /\ thr'[t].pc = "ret"
                         /\ ~thr'[t].failed
                         /\ files'[f] = files[f] ]_vars

\* C3 witness: setFileHash(B) has returned on a File whose hash is A and
\* whose cached flag is set
C3_Witness ==
    \E t \in Threads :
        /\ Back(t, "setFileHash")
        /\ thr[t].ret = "noop"
        /\ files[thr[t].file].hash # NULL
        /\ files[thr[t].file].hash # thr[t].arg
        /\ files[thr[t].file].cached

\* C4 (as stated): after deepCopy of a File whose line index is built, the
\* copy's slot does not refer to the storage object of the original's slot.
C4_CopyNeverShares ==
    \A t \in Threads :
        Back(t, "deepCopy") =>
            (files[thr[t].file].lineBreaks # NULL
                => files[thr[t].ret].lineBreaks # files[thr[t].file].lineBreaks)

\* C4 (amended): deepCopy copies the shared reference: when the original's
\* line index is built, line 115 gives the copy a slot that refers to the
\* same storage object as the original's slot (so the contents are equal);
\* when it is not built and no store into the slot is under way, the copy's
\* slot is empty.  deepCopy creates no storage object and leaves the
\* original's slot as it is; the copy is returned with the slot line 115
\* gave it.
C4_CopySharesStorage ==
    [][ \A t \in Threads :
            /\ CopyIndexStep(t) =>
                  LET f == thr[t].file
                      c == thr'[t].copy
                  IN  /\ files[f].lineBreaks # NULL =>
                            /\ c.lineBreaks = files[f].lineBreaks
                            /\ c.owns = files[f].owns
                            /\ heap'[c.lineBreaks] = findLineBreaks(files[f].source)
                            /\ heap' = heap
                            /\ files' = files
                      /\ files'[f].lineBreaks = NULL =>
                            (c.lineBreaks = NULL /\ c.owns = files[f].owns)
            /\ DeepCopyStep(t) =>
                  /\ files'[thr'[t].ret].lineBreaks = thr[t].copy.lineBreaks
                  /\ files'[thr'[t].ret].owns = thr[t].copy.owns
                  /\ \A i \in DOMAIN files : files'[i] = files[i]
                  /\ heap' = heap ]_vars

\* C4 witness: a copy made of a File with a built line index shares the
\* original's storage object
C4_Witness ==
    \E t \in Threads :
        /\ Back(t, "deepCopy")
        /\ files[thr[t].file].lineBreaks # NULL
        /\ files[thr[t].ret].lineBreaks = files[thr[t].file].lineBreaks

\* C5: whatever calls preceded it, deepCopy(f) appends a File whose hash is
\* empty and whose path, source, sourceType, epoch, strictLevel and
\* minErrorLevel are those of f, and leaves f and every other File as it
\* was.
C5_CopyFields ==
    [][ \A t \in Threads :
            /\ (thr[t].pc \in CopyPcs \/ thr'[t].pc \in CopyPcs) =>
                  \A i \in DOMAIN files : files'[i] = files[i]
            /\ DeepCopyStep(t) =>
                LET f == thr'[t].file
                    c == thr'[t].ret
                IN  /\ c = Len(files) + 1 /\ Len(files') = c
                    /\ \A i \in DOMAIN files : files'[i] = files[i]
                    /\ files'[c].hash = NULL
                    /\ files'[c].path = files[f].path
                    /\ files'[c].source = files[f].source
                    /\ files'[c].sourceType = files[f].sourceType
                    /\ files'[c].epoch = files[f].epoch
                    /\ files'[c].strictLevel = files[f].strictLevel
                    /\ files'[c].minErrorLevel = files[f].minErrorLevel ]_vars

\* C5 witness: a copy with an empty hash has been made of a File whose hash
\* is populated, whose levels are overridden and whose line index is built
C5_Witness ==
    \E t \in Threads :
        /\ Back(t, "deepCopy")
        /\ LET f == files[thr[t].file]
               c == files[thr[t].ret]
           IN  /\ f.hash # NULL /\ c.hash = NULL
               /\ f.strictLevel # f.originalSigil
               /\ c.strictLevel = f.strictLevel
               /\ f.minErrorLevel # "Max"
               /\ c.minErrorLevel = f.minErrorLevel
               /\ f.lineBreaks # NULL

\* C14: originalSigil is fixed at construction to fileSigil(source): after
\* any sequence of strictLevel overrides, minErrorLevel changes,
\* setFileHash, lineBreaks, lineCount, getLine and deepCopy calls, the
\* originalSigil of every File, copies included, equals fileSigil of its
\* source, and its strictLevel is that value unless it was overridden.
C14_OriginalSigilFixed ==
    \A f \in DOMAIN files :
        /\ files[f].originalSigil = fileSigil(files[f].source)
        /\ files[f].strictLevel \in {files[f].originalSigil} \cup OverrideLevels

\* C14 witness: a copy was made of a File whose strictLevel is overridden,
\* whose hash is set and whose line index is built, and getLine returned a
\* line of the copy
C14_Witness ==
    \E t \in Threads :
        /\ Back(t, "getLine") /\ ~thr[t].failed
        /\ thr[t].file = 2
        /\ files[1].hash # NULL /\ files[1].lineBreaks # NULL
        /\ files[1].minErrorLevel # "Max"
        /\ files[2].strictLevel # files[2].originalSigil
        /\ files[2].originalSigil = "True"
\* the calls that run lineBreaks()
IndexCalls == {"lineBreaks", "lineCount", "getLine"}

\* C15: every call that finds the slot empty builds a candidate and then
\* installs it or reads the value another caller installed, so every call
\* returns after at most one build and one install attempt, also when the
\* weak compare-and-swap fails although the slot is still empty.
C15_AtMostOneBuild ==
    \A t \in Threads :
        thr[t].op \in IndexCalls => thr[t].builds <= 1

\* C15, as the code has it: a call builds one candidate and makes one
\* install attempt, and one more of each for every compare-and-swap of its
\* own that failed although the slot was still empty; after an exchange
\* that succeeded, or failed because the slot was set, the slot is set and
\* the next load returns it.
C15_OneBuildPerSpuriousFailure ==
    \A t \in Threads :
        thr[t].op \in IndexCalls =>
            /\ thr[t].builds <= thr[t].fails + 1
            /\ thr[t].pc = "lb_loaded" => thr[t].builds = thr[t].fails
            /\ thr[t].pc = "lb_built" => thr[t].builds = thr[t].fails + 1
            /\ (thr[t].pc = "lb_again" /\ thr[t].builds = thr[t].fails + 1)
                  => files[thr[t].file].lineBreaks # NULL

\* C15 witness: a call is back after a compare-and-swap that failed on an
\* empty slot and a second build
C15_Witness ==
    \E t \in Threads :
        /\ Back(t, "lineBreaks")
        /\ thr[t].fails = 1
        /\ thr[t].builds = 2
\* C16: the line-index slot of a File changes at most once, from empty to a
\* fully built index: under any interleaving of lineBreaks(), lineCount(),
\* getLine() and deepCopy(), a slot that is set keeps referring to the same
\* storage object with the same contents, the contents are the complete
\* findLineBreaks(source), and what a reader gets is computed from them.
C16_SlotSetOnce ==
    [][ /\ \A f \in DOMAIN files :
              files[f].lineBreaks # NULL =>
                  /\ files'[f].lineBreaks = files[f].lineBreaks
                  /\ heap'[files[f].lineBreaks] = heap[files[f].lineBreaks]
        /\ \A f \in DOMAIN files' :
              files'[f].lineBreaks # NULL =>
                  heap'[files'[f].lineBreaks] = findLineBreaks(files'[f].source)
        /\ \A t \in Threads :
              (thr'[t].pc = "ret" /\ thr'[t].op = "lineCount" /\ ~thr'[t].failed)
                  => thr'[t].ret = lineCount(findLineBreaks(files'[thr'[t].file].source)) ]_vars

\* C16 witness: one thread installed its index and is back from lineCount,
\* while another thread, which had built a candidate for the same File,
\* lost the exchange to it
C16_Witness ==
    \E t, u \in Threads :
        /\ t # u
        /\ Back(t, "lineCount") /\ thr[t].builds = 1
        /\ thr[u].pc = "lb_again" /\ thr[u].file = thr[t].file
        /\ thr[u].builds = 1 /\ thr[u].fails = 0
        /\ files[thr[t].file].lineBreaks \in ObjectsOf(t)
\* the values fileSigil returns
Levels == {"None", "Ignore", "False", "True", "Strict", "Strong",
           "Autogenerated", "Stdlib"}

\* C17: fileSigil terminates for every source text: on every pass of its
\* outer loop the function returns or the search position strictly
\* increases, by one past a non-directive occurrence and past the captured
\* value otherwise, and stays within the text; the scan ends with a level
\* or None.
C17_ScanAdvances ==
    /\ scan.pc = "loop" =>
          /\ 0 <= scan.start /\ scan.start <= Len(scan.source)
          /\ LET it == SigilIter(scan.source, scan.start)
                 occ == Find(scan.source, TYPED, scan.start)
             IN  \/ it.ret
                 \/ /\ it.start > scan.start
                    /\ it.start <= Len(scan.source)
                    /\ occ >= scan.start
                    /\ IF At(scan.source, CommentStart(scan.source, occ)) # "#"
                       THEN it.start = occ + 1
                       ELSE it.start > occ + 6
    /\ scan.pc = "done" => scan.level \in Levels

\* C17 witness: after a pass over a directive whose value is not a level,
\* the scan is about to pass over an occurrence that is not a directive
C17_Witness ==
    /\ scan.pc = "loop"
    /\ scan.start >= 7
    /\ StartsWith(scan.source, <<"#">> \o TYPED)
    /\ LET it == SigilIter(scan.source, scan.start)
           occ == Find(scan.source, TYPED, scan.start)
       IN  /\ ~it.ret
           /\ occ >= scan.start
           /\ it.start = occ + 1
\* C18: a File and a copy made of it by deepCopy answer alike: two calls of
\* lineBreaks(), of lineCount() or of getLine(i) with the same i, one on
\* each, both fail or both return, and return equal sequences, counts or
\* lines, whether the index was built before the copy, after it or not at
\* all, and whether the copy received a built index or an empty slot.
C18_CopyReadsAlike ==
    \A t, u \in Threads :
        ( /\ thr[t].pc = "ret" /\ thr[u].pc = "ret"
          /\ thr[t].op \in IndexCalls /\ thr[u].op = thr[t].op
          /\ thr[t].file # thr[u].file
          /\ thr[t].arg = thr[u].arg )
        => /\ thr[t].failed = thr[u].failed
           /\ ~thr[t].failed =>
                 IF thr[t].op = "lineBreaks"
                 THEN heap[thr[t].ret] = heap[thr[u].ret]
                 ELSE thr[t].ret = thr[u].ret

\* C18 witness: the copy was made with an empty slot, the original and the
\* copy each built an index of their own, and getLine(2) is back from both
C18_Witness ==
    \E t, u \in Threads :
        /\ Back(t, "getLine") /\ Back(u, "getLine")
        /\ thr[t].file = 1 /\ thr[u].file = 2
        /\ thr[t].arg = 2 /\ thr[u].arg = 2
        /\ files[1].lineBreaks # NULL /\ files[2].lineBreaks # NULL
        /\ files[1].lineBreaks # files[2].lineBreaks
====





